---- MODULE Spec2Model ----
(***************************************************************************)
(* Model of chainsafe_ssz_decoder.js: the light client update decoder.     *)
(*                                                                         *)
(* The program is one synchronous pipeline (main): read the file, strip    *)
(* the beacon API framing, pick the SSZ type, deserialize, print the       *)
(* report, "verify" the next sync committee, exit.  Each stage is one      *)
(* action; the pure parts (parseBeaconResponse, the bit counting loop,     *)
(* getLightClientUpdateType, verifyNextSyncCommitteeProof) are operators.  *)
(*                                                                         *)
(* The SSZ library (@lodestar/types, @chainsafe/ssz) is not part of the    *)
(* repository.  Its answers are inputs of the model: which fork            *)
(* namespaces it provides (lib), which schemas accept the payload          *)
(* (accepts), the value deserialize returns, and whether hashTreeRoot      *)
(* throws.                                                                 *)
(***************************************************************************)
EXTENDS Integers, Sequences, FiniteSets

VARIABLES
    argc,                   \* process.argv.slice(2).length
    fileExists,             \* fs.existsSync(filename)
    disk,                   \* the bytes of the file
    lib,                    \* the fork namespaces the imported ssz object has
    accepts,                \* the schemas whose deserialize accepts the payload
    pc,                     \* the position of main
    sszBuffer,              \* main: sszBuffer
    frame,                  \* the result of parseBeaconResponse
    LightClientUpdateType,  \* main: LightClientUpdateType
    update,                 \* main: update
    participation,          \* displayUpdateInfo: participation
    isValid,                \* main: isValid ("unset" before the call)
    rootComputed,           \* verifyNextSyncCommitteeProof called hashTreeRoot
    exitCode,               \* the exit status of the process (-1: running)
    error,                  \* the error main's catch block received
    trace,                  \* the functions main has called, in order
    stdout                  \* the milestones main has printed

vars == <<argc, fileExists, disk, lib, accepts, pc, sszBuffer, frame,
          LightClientUpdateType, update, participation, isValid, rootComputed,
          exitCode, error, trace, stdout>>

(***************************************************************************)
(* Bounds of the model.                                                    *)
(***************************************************************************)
\* the longest payload a model file carries
MaxPayload == 2
\* the longest bit vector with mixed bytes
MaxMixed == 2

(***************************************************************************)
(* Bytes and buffers.                                                      *)
(***************************************************************************)
Byte == 0..255

\* buffer.slice(start, end): both ends are clamped to the buffer
Slice(buf, start, end) ==
    LET e == IF end < Len(buf) THEN end ELSE Len(buf)
        s == IF start < Len(buf) THEN start ELSE Len(buf)
    IN  IF s < e THEN SubSeq(buf, s + 1, e) ELSE << >>

\* buffer.readBigUInt64LE(0): the 64-bit value is kept as its eight
\* base-256 digits, least significant first (it does not fit a TLC integer)
ReadBigUInt64LE(buf) == SubSeq(buf, 1, 8)

\* the three low digits of a 64-bit value, as an integer
Low24(big) == big[1] + 256 * big[2] + 65536 * big[3]

\* the value is below 2^24: the five high digits are zero
HighZero(big) == \A i \in 4..8 : big[i] = 0

\* buffer.slice(12, 12 + Number(chunkLen)): a value of 2^24 or more is past
\* the end of every buffer of the model, and slice clamps it to the length
PayloadSlice(buf, chunkLen) ==
    IF HighZero(chunkLen)
    THEN Slice(buf, 12, 12 + Low24(chunkLen))
    ELSE Slice(buf, 12, Len(buf))

NoFrame == [chunkLen |-> << >>, forkDigest |-> << >>, payload |-> << >>]

ParseSwappedFields(buffer) ==
    IF Len(buffer) < 12
    THEN [threw |-> TRUE, frame |-> NoFrame]
    ELSE LET chunkLen == ReadBigUInt64LE(buffer)
         IN  [threw |-> FALSE,
              frame |-> [chunkLen   |-> chunkLen,
                         forkDigest |-> Slice(buffer, 4, 8),
                         payload    |-> PayloadSlice(buffer, chunkLen)]]

\* parseBeaconResponse(buffer)
ParseBeaconResponse(buffer) ==
    IF Len(buffer) < 12
    THEN [threw |-> TRUE, frame |-> NoFrame]
    ELSE LET chunkLen == ReadBigUInt64LE(buffer)
         IN  [threw |-> FALSE,
              frame |-> [chunkLen   |-> chunkLen,
                         forkDigest |-> Slice(buffer, 8, 12),
                         payload    |-> PayloadSlice(buffer, chunkLen)]]

(***************************************************************************)
(* The SSZ type of the update.                                             *)
(***************************************************************************)
Forks == {"electra", "deneb", "capella"}

ResolveDenebFirst(forkDigest, sszLib) ==
    IF "deneb" \in sszLib THEN [threw |-> FALSE, type |-> "deneb"]
    ELSE IF "electra" \in sszLib THEN [threw |-> FALSE, type |-> "electra"]
    ELSE IF "capella" \in sszLib THEN [threw |-> FALSE, type |-> "capella"]
    ELSE [threw |-> TRUE, type |-> "none"]

\* getLightClientUpdateType(forkDigest): the digest is printed and not used.
\* ssz.<fork>.LightClientUpdate throws a TypeError when ssz.<fork> is
\* undefined, and only then does the next catch block run.
GetLightClientUpdateType(forkDigest, sszLib) ==
    IF "electra" \in sszLib THEN [threw |-> FALSE, type |-> "electra"]
    ELSE IF "deneb" \in sszLib THEN [threw |-> FALSE, type |-> "deneb"]
    ELSE IF "capella" \in sszLib THEN [threw |-> FALSE, type |-> "capella"]
    ELSE [threw |-> TRUE, type |-> "none"]

(***************************************************************************)
(* The sync committee participation count of displayUpdateInfo.            *)
(***************************************************************************)
RECURSIVE ToBinary(_)
\* byte.toString(2): the binary digits, most significant first; "0" for 0
ToBinary(n) ==
    IF n < 2 THEN <<n>> ELSE Append(ToBinary(n \div 2), n % 2)

RECURSIVE Split(_, _)
\* str.split(c) for a one-character separator: the pieces between the
\* occurrences of c (one more piece than occurrences)
Split(str, c) ==
    IF \A i \in 1..Len(str) : str[i] # c
    THEN <<str>>
    ELSE LET k == CHOOSE i \in 1..Len(str) :
                      str[i] = c /\ \A j \in 1..(i - 1) : str[j] # c
         IN  <<SubSeq(str, 1, k - 1)>> \o Split(SubSeq(str, k + 1, Len(str)), c)

CountZeros(byte) == Len(Split(ToBinary(byte), 0)) - 1

\* byte.toString(2).split('1').length - 1
CountOnes(byte) == Len(Split(ToBinary(byte), 1)) - 1

RECURSIVE Participation(_)
\* the loop over syncBits.uint8Array
Participation(bytes) ==
    IF bytes = << >> THEN 0
    ELSE CountOnes(Head(bytes)) + Participation(Tail(bytes))

(***************************************************************************)
(* verifyNextSyncCommitteeProof.                                           *)
(***************************************************************************)
VerifyRejectsMissing(u, hashThrows) ==
    IF ~u.hasNext
    THEN [result |-> FALSE, rootComputed |-> FALSE, out |-> "noNext"]
    ELSE IF hashThrows
    THEN [result |-> FALSE, rootComputed |-> FALSE, out |-> "verifyError"]
    ELSE [result |-> TRUE, rootComputed |-> TRUE, out |-> "rootComputed"]

\* verifyNextSyncCommitteeProof(update, LightClientUpdateType); hashThrows:
\* the library throws inside the try block
VerifyNextSyncCommitteeProof(u, hashThrows) ==
    IF ~u.hasNext
    THEN [result |-> TRUE, rootComputed |-> FALSE, out |-> "noNext"]
    ELSE IF hashThrows
    THEN [result |-> FALSE, rootComputed |-> FALSE, out |-> "verifyError"]
    ELSE [result |-> TRUE, rootComputed |-> TRUE, out |-> "rootComputed"]

(***************************************************************************)
(* The inputs of the model.                                                *)
(***************************************************************************)
\* fork digests of three known forks (mainnet) and one of no known fork
ElectraDigest == <<173, 83, 44, 235>>
DenebDigest == <<106, 149, 161, 169>>
CapellaDigest == <<187, 164, 218, 150>>
LocalDigest == <<1, 2, 3, 4>>
Digests == {ElectraDigest, DenebDigest, CapellaDigest, LocalDigest}

\* a chunk length: low digit b0, and digit k set to 1 (k = 1: none)
ChunkDigits(b0, k) ==
    [i \in 1..8 |-> IF i = 1 THEN b0 ELSE IF i = k THEN 1 ELSE 0]

\* a payload of n bytes
Body(n) == [i \in 1..n |-> 16 * i + 1]

\* the files of the pipeline: a declared length, a digest, a body, whole or
\* cut after 11 bytes
MainFiles ==
    UNION { {SubSeq(f, 1, 11), f} :
            f \in { ChunkDigits(n, 1) \o d \o Body(k) :
                      n \in 0..MaxPayload, d \in Digests, k \in 0..MaxPayload } }

\* the byte values of the payloads of the framing specification
BodyBytes == {0, 255}

\* the buffers of the framing specification: every prefix of a frame with
\* any declared length (small, or with one high digit set) and any body
FrameBuffers ==
    UNION { { SubSeq(ChunkDigits(b0, k) \o d \o body, 1, m) :
                m \in 0..(12 + Len(body)) } :
            b0 \in 0..(MaxPayload + 1), k \in 1..8, d \in Digests,
            body \in UNION { [1..n -> BodyBytes] : n \in 0..(MaxPayload + 1) } }

\* the library versions: each adds a fork namespace to the older ones
Libs == { {}, {"capella"}, {"capella", "deneb"}, {"capella", "deneb", "electra"} }

\* 32-byte digests, abstracted to three values
Hashes == {0, 1, 2}

\* the depth of nextSyncCommitteeBranch in the library's schema of a fork
DepthOf(type) == IF type = "electra" THEN 6 ELSE 5

\* branches with at most one sibling different from the zero digest
BranchesOf(depth) ==
    { b \in [1..depth -> Hashes] :
        Cardinality({ i \in 1..depth : b[i] # 0 }) <= 1 }

\* the bit vectors of the pipeline
MainBits == { <<0, 0>>, <<255, 255>>, <<170, 1>> }

NoUpdate == [hasNext |-> FALSE, committeeRoot |-> 0, branch |-> << >>,
             stateRoot |-> 0, syncBits |-> << >>]

\* the values deserialize can return for a schema: the fields the program
\* reads.  committeeRoot is what hashTreeRoot(nextSyncCommittee) yields.
\* hasNext = FALSE is an update whose nextSyncCommittee is falsy.
Updates(type) ==
    { [hasNext |-> FALSE, committeeRoot |-> 0, branch |-> << >>,
       stateRoot |-> r, syncBits |-> bits] : r \in Hashes, bits \in MainBits }
    \cup
    { [hasNext |-> TRUE, committeeRoot |-> c, branch |-> b,
       stateRoot |-> r, syncBits |-> bits] :
        c \in Hashes, b \in BranchesOf(DepthOf(type)), r \in Hashes,
        bits \in MainBits }

\* the bit vectors of the counting specification: n copies of any byte up to
\* the 64 bytes of a 512-bit vector, and short vectors of mixed bytes
CommitteeBits == 512
SampleBytes == {0, 1, 128, 170, 255}
BitVectors ==
    { [i \in 1..n |-> b] : n \in 0..(CommitteeBits \div 8), b \in Byte }
    \cup UNION { [1..n -> SampleBytes] : n \in 0..MaxMixed }

(***************************************************************************)
(* The pipeline: main.                                                     *)
(***************************************************************************)
Start ==
    /\ pc = "main"
    /\ sszBuffer = << >>
    /\ frame = NoFrame
    /\ LightClientUpdateType = "none"
    /\ update = NoUpdate
    /\ participation = 0
    /\ isValid = "unset"
    /\ rootComputed = FALSE
    /\ exitCode = -1
    /\ error = "none"
    /\ trace = << >>
    /\ stdout = {}

Init ==
    /\ argc \in {0, 1}
    /\ fileExists \in BOOLEAN
    /\ disk \in (IF fileExists THEN MainFiles ELSE {<< >>})
    /\ lib \in Libs
    /\ accepts \in SUBSET Forks
    /\ Start

\* the catch block of main: print the error, process.exit(1)
Catch(e) ==
    /\ error' = e
    /\ exitCode' = 1
    /\ pc' = "exit"

\* main with no argument: the usage text, process.exit(1)
Usage ==
    /\ pc = "main"
    /\ argc < 1
    /\ stdout' = stdout \cup {"usage"}
    /\ exitCode' = 1
    /\ pc' = "exit"
    /\ UNCHANGED <<argc, fileExists, disk, lib, accepts, sszBuffer, frame,
                   LightClientUpdateType, update, participation, isValid,
                   rootComputed, error, trace>>

\* const sszBuffer = readSSZFile(filename)
ReadSSZFile ==
    /\ pc = "main"
    /\ argc >= 1
    /\ trace' = Append(trace, "readSSZFile")
    /\ IF ~fileExists
       THEN Catch("FileNotFound") /\ UNCHANGED sszBuffer
       ELSE /\ sszBuffer' = disk
            /\ pc' = "parse"
            /\ UNCHANGED <<error, exitCode>>
    /\ UNCHANGED <<argc, fileExists, disk, lib, accepts, frame,
                   LightClientUpdateType, update, participation, isValid,
                   rootComputed, stdout>>

\* const { payload, forkDigest } = parseBeaconResponse(sszBuffer)
ParseFrame ==
    /\ pc = "parse"
    /\ trace' = Append(trace, "parseBeaconResponse")
    /\ LET r == ParseBeaconResponse(sszBuffer)
       IN  IF r.threw
           THEN Catch("ResponseTooShort") /\ UNCHANGED frame
           ELSE /\ frame' = r.frame
                /\ pc' = "resolve"
                /\ UNCHANGED <<error, exitCode>>
    /\ UNCHANGED <<argc, fileExists, disk, lib, accepts, sszBuffer,
                   LightClientUpdateType, update, participation, isValid,
                   rootComputed, stdout>>

\* const LightClientUpdateType = getLightClientUpdateType(forkDigest)
ResolveType ==
    /\ pc = "resolve"
    /\ trace' = Append(trace, "getLightClientUpdateType")
    /\ LET r == GetLightClientUpdateType(frame.forkDigest, lib)
       IN  IF r.threw
           THEN Catch("CouldNotDetermineType") /\ UNCHANGED LightClientUpdateType
           ELSE /\ LightClientUpdateType' = r.type
                /\ pc' = "decode"
                /\ UNCHANGED <<error, exitCode>>
    /\ UNCHANGED <<argc, fileExists, disk, lib, accepts, sszBuffer, frame,
                   update, participation, isValid, rootComputed, stdout>>

\* the library's deserialize accepts the payload with this schema; no
\* schema accepts an empty payload
Decodes(type, payload) == type \in accepts /\ Len(payload) > 0

DeserializeNoAbort ==
    /\ pc = "decode"
    /\ trace' = Append(trace, "deserialize")
    /\ \E u \in Updates(LightClientUpdateType) :
          /\ update' = u
          /\ stdout' = stdout \cup {"decoded"}
          /\ pc' = "display"
          /\ error' = IF Decodes(LightClientUpdateType, frame.payload)
                      THEN error ELSE "DeserializeError"
          /\ UNCHANGED exitCode
    /\ UNCHANGED <<argc, fileExists, disk, lib, accepts, sszBuffer, frame,
                   LightClientUpdateType, participation, isValid, rootComputed>>

\* const update = LightClientUpdateType.deserialize(payload), and the line
\* printed after it
Deserialize ==
    /\ pc = "decode"
    /\ trace' = Append(trace, "deserialize")
    /\ \/ /\ Decodes(LightClientUpdateType, frame.payload)
          /\ \E u \in Updates(LightClientUpdateType) : update' = u
          /\ stdout' = stdout \cup {"decoded"}
          /\ pc' = "display"
          /\ UNCHANGED <<error, exitCode>>
       \/ /\ ~Decodes(LightClientUpdateType, frame.payload)
          /\ Catch("DeserializeError")
          /\ UNCHANGED <<update, stdout>>
    /\ UNCHANGED <<argc, fileExists, disk, lib, accepts, sszBuffer, frame,
                   LightClientUpdateType, participation, isValid, rootComputed>>

\* displayUpdateInfo(update)
DisplayUpdateInfo ==
    /\ pc = "display"
    /\ trace' = Append(trace, "displayUpdateInfo")
    /\ participation' = Participation(update.syncBits)
    /\ stdout' = stdout \cup {"report"}
    /\ pc' = "verify"
    /\ UNCHANGED <<argc, fileExists, disk, lib, accepts, sszBuffer, frame,
                   LightClientUpdateType, update, isValid, rootComputed,
                   exitCode, error>>

\* const isValid = verifyNextSyncCommitteeProof(update, LightClientUpdateType)
Verify ==
    /\ pc = "verify"
    /\ trace' = Append(trace, "verifyNextSyncCommitteeProof")
    /\ \E hashThrows \in BOOLEAN :
          LET r == VerifyNextSyncCommitteeProof(update, hashThrows)
          IN  /\ isValid' = (IF r.result THEN "true" ELSE "false")
              /\ rootComputed' = r.rootComputed
              /\ stdout' = stdout \cup {r.out}
    /\ pc' = "conclude"
    /\ UNCHANGED <<argc, fileExists, disk, lib, accepts, sszBuffer, frame,
                   LightClientUpdateType, update, participation, exitCode,
                   error>>

ConcludeAlwaysZero ==
    /\ pc = "conclude"
    /\ stdout' = stdout \cup {IF isValid = "true" THEN "success" ELSE "failed"}
    /\ exitCode' = 0
    /\ pc' = "exit"
    /\ UNCHANGED <<argc, fileExists, disk, lib, accepts, sszBuffer, frame,
                   LightClientUpdateType, update, participation, isValid,
                   rootComputed, error, trace>>

\* if (isValid) ... else ... process.exit(1); a main that returns ends the
\* process with status 0
Conclude ==
    /\ pc = "conclude"
    /\ IF isValid = "true"
       THEN /\ stdout' = stdout \cup {"success"}
            /\ exitCode' = 0
       ELSE /\ stdout' = stdout \cup {"failed"}
            /\ exitCode' = 1
    /\ pc' = "exit"
    /\ UNCHANGED <<argc, fileExists, disk, lib, accepts, sszBuffer, frame,
                   LightClientUpdateType, update, participation, isValid,
                   rootComputed, error, trace>>

Next ==
    \/ Usage
    \/ ReadSSZFile
    \/ ParseFrame
    \/ ResolveType
    \/ Deserialize
    \/ DisplayUpdateInfo
    \/ Verify
    \/ Conclude

Spec == Init /\ [][Next]_vars

(***************************************************************************)
(* parseBeaconResponse alone, on the buffers of FrameBuffers.              *)
(***************************************************************************)
InitFrame ==
    /\ argc = 1
    /\ fileExists = TRUE
    /\ disk \in FrameBuffers
    /\ lib = Forks
    /\ accepts = {}
    /\ pc = "parse"
    /\ sszBuffer = disk
    /\ frame = NoFrame
    /\ LightClientUpdateType = "none"
    /\ update = NoUpdate
    /\ participation = 0
    /\ isValid = "unset"
    /\ rootComputed = FALSE
    /\ exitCode = -1
    /\ error = "none"
    /\ trace = <<"readSSZFile">>
    /\ stdout = {}

NextFrame == ParseFrame

SpecFrame == InitFrame /\ [][NextFrame]_vars

(***************************************************************************)
(* displayUpdateInfo alone, on the bit vectors of BitVectors.              *)
(***************************************************************************)
InitBits ==
    /\ argc = 1
    /\ fileExists = TRUE
    /\ disk = ChunkDigits(1, 1) \o ElectraDigest \o Body(1)
    /\ lib = Forks
    /\ accepts = Forks
    /\ pc = "display"
    /\ sszBuffer = disk
    /\ frame = ParseBeaconResponse(disk).frame
    /\ LightClientUpdateType = "electra"
    /\ \E bits \in BitVectors :
          update = [hasNext |-> TRUE, committeeRoot |-> 0,
                    branch |-> [i \in 1..6 |-> 0], stateRoot |-> 0,
                    syncBits |-> bits]
    /\ participation = 0
    /\ isValid = "unset"
    /\ rootComputed = FALSE
    /\ exitCode = -1
    /\ error = "none"
    /\ trace = <<"readSSZFile", "parseBeaconResponse",
                 "getLightClientUpdateType", "deserialize">>
    /\ stdout = {"decoded"}

NextBits == DisplayUpdateInfo

SpecBits == InitBits /\ [][NextBits]_vars

(***************************************************************************)
(* The framing parser (checked under SpecFrame).                           *)
(***************************************************************************)
\* parseBeaconResponse has returned or thrown
Parsed == pc # "parse" /\ "parseBeaconResponse" \in { trace[i] : i \in DOMAIN trace }

\* the declared chunk length of a buffer of at least 12 bytes fits the
\* buffer: 12 + chunkLen <= buffer.length
DeclaredFits(buf) ==
    /\ \A i \in 4..8 : buf[i] = 0
    /\ 12 + buf[1] + 256 * buf[2] + 65536 * buf[3] <= Len(buf)

\* C1: a buffer shorter than 12 bytes, and a buffer of at least 12 bytes
\* whose declared chunk length runs past its end, makes parseBeaconResponse
\* fail with the truncated-input error and return no payload.
C1_TruncatedInputFails ==
    Parsed /\ (Len(sszBuffer) < 12 \/ ~DeclaredFits(sszBuffer))
        => error = "ResponseTooShort" /\ frame = NoFrame

\* C2: when the declared chunk length fits the buffer, parseBeaconResponse
\* returns bytes [8, 12) as forkDigest and bytes [12, 12 + chunkLen) as
\* payload, so the payload has exactly chunkLen bytes (none for chunkLen 0),
\* and it does not fail.
C2_FrameFields ==
    Parsed /\ Len(sszBuffer) >= 12 /\ DeclaredFits(sszBuffer)
        => LET n == sszBuffer[1] + 256 * sszBuffer[2] + 65536 * sszBuffer[3]
           IN  /\ error = "none"
               /\ pc = "resolve"
               /\ frame.forkDigest = [i \in 1..4 |-> sszBuffer[8 + i]]
               /\ frame.payload = [i \in 1..n |-> sszBuffer[12 + i]]
               /\ Len(frame.payload) = n
               /\ frame.chunkLen = [i \in 1..8 |-> sszBuffer[i]]

\* a frame with a payload of at least one byte and bytes after the payload
C2_Witness ==
    /\ Parsed
    /\ Len(sszBuffer) >= 12
    /\ DeclaredFits(sszBuffer)
    /\ Len(frame.payload) >= 1
    /\ Len(sszBuffer) > 12 + Len(frame.payload)
    /\ frame.forkDigest = DenebDigest

(***************************************************************************)
(* The participation count (checked under SpecBits).                       *)
(***************************************************************************)
\* the number of 1 bits of a byte, bit by bit
PopCount(b) ==
    (b % 2) + ((b \div 2) % 2) + ((b \div 4) % 2) + ((b \div 8) % 2)
    + ((b \div 16) % 2) + ((b \div 32) % 2) + ((b \div 64) % 2)
    + ((b \div 128) % 2)

RECURSIVE PopCountSum(_)
PopCountSum(bytes) ==
    IF bytes = << >> THEN 0
    ELSE PopCount(bytes[Len(bytes)]) + PopCountSum(SubSeq(bytes, 1, Len(bytes) - 1))

\* C9: the participation count displayUpdateInfo computes is the number of
\* 1 bits of the bit vector's bytes, for every byte value; 64 bytes of 0xFF
\* give 512 and 64 bytes of 0x00 give 0.
C9_ParticipationIsPopCount ==
    "displayUpdateInfo" \in { trace[i] : i \in DOMAIN trace }
        => /\ participation = PopCountSum(update.syncBits)
           /\ (update.syncBits = [i \in 1..64 |-> 255] => participation = 512)
           /\ (update.syncBits = [i \in 1..64 |-> 0] => participation = 0)

\* the report of a 512-bit vector of ones
C9_Witness ==
    /\ pc = "verify"
    /\ update.syncBits = [i \in 1..64 |-> 255]
    /\ participation = 512

(***************************************************************************)
(* The pipeline (checked under Spec).                                      *)
(***************************************************************************)
Called(f) == f \in { trace[i] : i \in DOMAIN trace }

\* the order of the stages of main
StageOrder == <<"readSSZFile", "parseBeaconResponse",
                "getLightClientUpdateType", "deserialize",
                "displayUpdateInfo", "verifyNextSyncCommitteeProof">>

\* C4: a run with a file argument ends with status 0 only if reading,
\* framing, decoding and verification all succeeded; it ends with a
\* non-zero status when the file is missing, framing or decoding throws, or
\* the verification returns false; the success message and a non-zero
\* status never occur together.
C4_ExitStatus ==
    /\ ~("success" \in stdout /\ exitCode > 0)
    /\ pc = "exit" /\ argc >= 1 =>
          /\ exitCode \in {0, 1}
          /\ exitCode = 0 =>
                /\ fileExists
                /\ Len(sszBuffer) >= 12
                /\ Decodes(LightClientUpdateType, frame.payload)
                /\ isValid = "true"
                /\ "success" \in stdout
          /\ \/ ~fileExists
             \/ error \in {"ResponseTooShort", "DeserializeError"}
             \/ (Called("parseBeaconResponse") /\ Len(sszBuffer) < 12)
             \/ (Called("deserialize")
                   /\ ~Decodes(LightClientUpdateType, frame.payload))
             \/ isValid = "false"
             => exitCode = 1

\* a run whose verification returned false and that ended with status 1
C4_Witness ==
    /\ pc = "exit"
    /\ argc >= 1
    /\ isValid = "false"
    /\ exitCode = 1
    /\ "failed" \in stdout

\* C10: the stages run in the order read, parse, resolve, decode, display,
\* verify; when framing or decoding fails the run ends at once with a
\* non-zero status: neither displayUpdateInfo nor
\* verifyNextSyncCommitteeProof is called and no report is printed.
C10_StageOrderAndAbort ==
    /\ Len(trace) <= Len(StageOrder)
    /\ \A i \in DOMAIN trace : trace[i] = StageOrder[i]
    /\ \/ error \in {"ResponseTooShort", "DeserializeError"}
       \/ (Called("parseBeaconResponse") /\ Len(sszBuffer) < 12)
       \/ (Called("deserialize") /\ ~Decodes(LightClientUpdateType, frame.payload))
       => /\ ~Called("displayUpdateInfo")
          /\ ~Called("verifyNextSyncCommitteeProof")
          /\ "report" \notin stdout
          /\ pc = "exit"
          /\ exitCode = 1

\* a run that ended when deserialize threw
C10_Witness ==
    /\ pc = "exit"
    /\ error = "DeserializeError"
    /\ trace = SubSeq(StageOrder, 1, 4)
    /\ exitCode = 1

\* the fork a digest identifies in the table of known digests
ForkOfDigest(d) ==
    IF d = ElectraDigest THEN "electra"
    ELSE IF d = DenebDigest THEN "deneb"
    ELSE IF d = CapellaDigest THEN "capella"
    ELSE "unknown"

\* C5: getLightClientUpdateType resolves a digest that identifies a known
\* fork to the schema of that fork.
C5_ExactDigestMatch ==
    Called("getLightClientUpdateType") /\ ForkOfDigest(frame.forkDigest) \in lib
        => /\ error = "none"
           /\ LightClientUpdateType = ForkOfDigest(frame.forkDigest)

\* the schemas of the library that accept the payload, and the newest one
Accepting == { f \in lib : Decodes(f, frame.payload) }
Newest(fs) ==
    IF "electra" \in fs THEN "electra"
    ELSE IF "deneb" \in fs THEN "deneb"
    ELSE "capella"

\* C6: for a digest that matches no known fork, the schemas are probed from
\* the newest to the oldest, each decode failure advancing to the next older
\* one, and the first schema that decodes the payload is used; when none
\* decodes it the run ends with an error (UnknownFork, under whatever name
\* the program gives it) and a non-zero status.
C6_FallbackProbing ==
    pc = "exit" /\ Called("getLightClientUpdateType")
      /\ ForkOfDigest(frame.forkDigest) = "unknown"
        => IF Accepting # {}
           THEN /\ "decoded" \in stdout
                /\ LightClientUpdateType = Newest(Accepting)
           ELSE /\ error # "none"
                /\ exitCode > 0

(***************************************************************************)
(* The verification of the next sync committee (checked under Spec).       *)
(***************************************************************************)
\* const ELECTRA_NEXT_SYNC_COMMITTEE_GINDEX = 87n
ELECTRA_NEXT_SYNC_COMMITTEE_GINDEX == 87

\* the hash of two digests, in (left, right) order: on the three abstract
\* digests it is one-to-one in each argument, so changing one sibling
\* changes the parent
HashPair(left, right) == (left + 2 * right + 1) % Cardinality(Hashes)

RECURSIVE ReconstructRoot(_, _, _)
\* the root from a leaf, its generalized index and the branch of siblings:
\* the low bit of the index says whether the node is a right child
ReconstructRoot(node, index, branch) ==
    IF index = 1 \/ branch = << >> THEN node
    ELSE ReconstructRoot(
             IF index % 2 = 1 THEN HashPair(Head(branch), node)
                              ELSE HashPair(node, Head(branch)),
             index \div 2, Tail(branch))

RECURSIVE FloorLog2(_)
FloorLog2(n) == IF n < 2 THEN 0 ELSE 1 + FloorLog2(n \div 2)

\* verifyNextSyncCommitteeProof has returned for an Electra update with a
\* next sync committee, and the library has not thrown
VerifiedWithNext ==
    /\ Called("verifyNextSyncCommitteeProof")
    /\ LightClientUpdateType = "electra"
    /\ update.hasNext
    /\ "verifyError" \notin stdout

\* C3: for a decoded Electra update with a next sync committee,
\* verifyNextSyncCommitteeProof reports success exactly when the root
\* reconstructed from the committee's hash tree root, the generalized index
\* and nextSyncCommitteeBranch is the attested header's state root.
C3_ProofDecidesResult ==
    VerifiedWithNext
        => (isValid = "true"
              <=> ReconstructRoot(update.committeeRoot,
                                  ELECTRA_NEXT_SYNC_COMMITTEE_GINDEX,
                                  update.branch) = update.stateRoot)

\* C8: a branch whose length is not floor(log2(generalizedIndex)) makes the
\* verification fail with ProofLengthMismatch, an error; a branch of that
\* length that reconstructs another root yields the result false, no error.
C8_ProofShapeError ==
    VerifiedWithNext =>
        IF Len(update.branch) # FloorLog2(ELECTRA_NEXT_SYNC_COMMITTEE_GINDEX)
        THEN error = "ProofLengthMismatch"
        ELSE ReconstructRoot(update.committeeRoot,
                             ELECTRA_NEXT_SYNC_COMMITTEE_GINDEX,
                             update.branch) # update.stateRoot
                => isValid = "false" /\ error = "none"

\* the outcome of a call, as the program names it in its output
OutcomeOf(u, hashThrows) ==
    IF ~u.hasNext THEN "noNext"
    ELSE IF hashThrows THEN "failed" ELSE "verified"

\* the outcome of the call of this run
RunOutcome ==
    IF ~update.hasNext THEN "noNext"
    ELSE IF rootComputed THEN "verified" ELSE "failed"

\* the update of this run, with and without its next sync committee
OtherCalls == { [update EXCEPT !.hasNext = b] : b \in BOOLEAN }

\* the value the variable isValid holds for a result
ValueOf(result) == IF result THEN "true" ELSE "false"

\* C7 as stated: the result distinguishes "no next sync committee" (returned
\* without computing a root), "verified" and "failed": no call with another
\* outcome returns the value this call returned.
C7_ThreeDistinctResults ==
    Called("verifyNextSyncCommitteeProof") =>
        /\ ~update.hasNext => ~rootComputed
        /\ \A u \in OtherCalls, h \in BOOLEAN :
              OutcomeOf(u, h) # RunOutcome
                => ValueOf(VerifyNextSyncCommitteeProof(u, h).result) # isValid

\* C7 amended: the result is a boolean.  Without a next sync committee it is
\* true and no root is computed; with one it is true when the root was
\* computed and false when computing it threw.  So false reports "failed"
\* alone, and "no next sync committee" and "verified" both report true.
C7_BooleanResult ==
    Called("verifyNextSyncCommitteeProof") =>
        /\ isValid \in {"true", "false"}
        /\ ~update.hasNext => isValid = "true" /\ ~rootComputed
        /\ update.hasNext => (isValid = "true" <=> rootComputed)
        /\ isValid = "false" <=> RunOutcome = "failed"
        /\ \A u \in OtherCalls, h \in BOOLEAN :
              /\ OutcomeOf(u, h) = "failed"
                    => VerifyNextSyncCommitteeProof(u, h).result = FALSE
              /\ OutcomeOf(u, h) \in {"noNext", "verified"}
                    => VerifyNextSyncCommitteeProof(u, h).result = TRUE

\* a call for an update without a next sync committee
C7_Witness ==
    /\ Called("verifyNextSyncCommitteeProof")
    /\ ~update.hasNext
    /\ isValid = "true"
    /\ ~rootComputed
    /\ "noNext" \in stdout

====
